---- MODULE Spec2Model ----
(***************************************************************************)
(* A model of the retrieval-and-indexing subsystem of TalktoDocs:          *)
(*   core/chunker.py, core/vector_store.py, core/retriever.py,             *)
(*   core/loader.py, core/cleaner.py and services/ingestion_service.py.    *)
(*                                                                         *)
(* Numbers.  Vector components and scores are 32-bit floats in the code.   *)
(* Here a component is an integer number of tenths (10 is 1.0), so an      *)
(* inner product is an integer number of hundredths (100 is 1.0) and is    *)
(* exact.  A text is a sequence of characters, a character a string: the   *)
(* letters, " ", "\n", "NUL" for U+0000 and "ZWSP" for U+200B.              *)
(*                                                                         *)
(* Python's None is the empty sequence, a present value v is <<v>>.        *)
(***************************************************************************)
EXTENDS Integers, Sequences, FiniteSets, TLC

VARIABLES
    index,          \* FaissVectorStore.index: None or <<[d, ntotal, xb]>>
    metadata,       \* FaissVectorStore.metadata: list of chunk dicts
    index_file,     \* the file at index_path: absent or <<contents>>
    meta_file,      \* the file at meta_path: absent or <<contents>>
    fresh_index,    \* index of a second store object built by build_services
    fresh_metadata, \* metadata of that second store object
    chunker,        \* TextChunker: None or <<[chunk_size, overlap]>>
    op,             \* name of the last call
    args,           \* its arguments
    result,         \* how it ended: a return value or the exception raised
    out,            \* the list it returned (search, retrieve, chunk_document)
    stages,         \* the calls the last call made, when it was an ingestion
    uploads,        \* names of the files in settings.upload_dir
    pending         \* an add between index.add and metadata.extend: None
                    \* or <<the chunks whose dicts are still to be appended>>

vars == <<index, metadata, index_file, meta_file, fresh_index, fresh_metadata,
          chunker, op, args, result, out, stages, uploads, pending>>

storeVars == <<index, metadata, index_file, meta_file>>
freshVars == <<fresh_index, fresh_metadata>>

None == <<>>
Some(v) == <<v>>
Get(o) == o[1]

(***************************************************************************)
(* Bounds of the model.                                                    *)
(***************************************************************************)
MaxTotal == 2       \* most vectors the index holds
MaxBatch == 2       \* most rows / chunks passed to one add
MaxK == 3           \* largest top_k
MaxTextLen == 5     \* longest text given to chunk_document
MaxChunkSize == 3   \* largest chunk_size of a constructed chunker

Min(a, b) == IF a <= b THEN a ELSE b

(***************************************************************************)
(* Sequence helpers.                                                       *)
(***************************************************************************)
IsPrefix(s, t) == Len(s) <= Len(t) /\ SubSeq(t, 1, Len(s)) = s

RECURSIVE Flatten(_)
Flatten(rows) ==
    IF rows = <<>> THEN <<>> ELSE Head(rows) \o Flatten(Tail(rows))

RECURSIVE Dot(_, _)
Dot(a, b) ==
    IF a = <<>> THEN 0 ELSE Head(a) * Head(b) + Dot(Tail(a), Tail(b))

(***************************************************************************)
(* faiss.IndexFlatIP, as the store uses it.  xb is the flat array of the   *)
(* stored components, ntotal rows of d components each.                    *)
(***************************************************************************)
IndexFlatIP(dim) == [d |-> dim, ntotal |-> 0, xb |-> <<>>]

\* numpy 2-D float32 array of shape (n, d): shape and flat data
Array(rows, width) == [shape |-> <<Len(rows), width>>, data |-> Flatten(rows)]

\* index.add(x) putting the new rows before the stored ones
faiss_add_prepends(ix, x) ==
    IF x.shape[2] # ix.d
    THEN [result |-> "AssertionError", index |-> ix]
    ELSE [result |-> "ok",
          index |-> [ix EXCEPT !.ntotal = @ + x.shape[1], !.xb = x.data \o @]]

\* index.add(x) without the assertion on the width of x
faiss_add_unchecked(ix, x) ==
    [result |-> "ok",
     index |-> [ix EXCEPT !.ntotal = @ + x.shape[1], !.xb = @ \o x.data]]

\* index.add(x): faiss asserts that x has the width of the index, then
\* appends the rows of x after the stored ones.
faiss_add(ix, x) ==
    IF x.shape[2] # ix.d
    THEN [result |-> "AssertionError", index |-> ix]
    ELSE [result |-> "ok",
          index |-> [ix EXCEPT !.ntotal = @ + x.shape[1], !.xb = @ \o x.data]]

\* row i (zero-based) of the stored vectors
Row(ix, i) == SubSeq(ix.xb, i * ix.d + 1, (i + 1) * ix.d)

\* inner product of the query with row i
Score(ix, q, i) == Dot(q, Row(ix, i))

\* the best of the positions S: highest score, the lower position on a tie
Best(ix, q, S) ==
    CHOOSE i \in S : \A j \in S :
        \/ Score(ix, q, i) > Score(ix, q, j)
        \/ Score(ix, q, i) = Score(ix, q, j) /\ i <= j

\* the k labels of index.search: best first, -1 once the rows run out
RECURSIVE Labels(_, _, _, _)
Labels(ix, q, k, S) ==
    IF k = 0 THEN <<>>
    ELSE IF S = {} THEN <<-1>> \o Labels(ix, q, k - 1, S)
    ELSE LET b == Best(ix, q, S)
         IN  <<b>> \o Labels(ix, q, k - 1, S \ {b})

\* index.search(query, k): faiss asserts the query width and k > 0 and
\* returns k scores and k labels; a missing neighbour has label -1 and the
\* lowest score.
faiss_search(ix, q, k) ==
    IF Len(q) # ix.d \/ k <= 0
    THEN [result |-> "AssertionError", indices |-> <<>>, scores |-> <<>>]
    ELSE LET I == Labels(ix, q, k, 0 .. (ix.ntotal - 1))
         IN  [result |-> "ok",
              indices |-> I,
              scores |-> [j \in 1 .. k |->
                            IF I[j] = -1 THEN -1000000 ELSE Score(ix, q, I[j])]]

\* faiss.write_index: fourcc, d, ntotal, size of xb, xb
write_index(ix) == <<"IxFI", ix.d, ix.ntotal, Len(ix.xb)>> \o ix.xb

\* faiss.read_index reading one component too few
read_index_short(bytes) ==
    [d |-> bytes[2], ntotal |-> bytes[3], xb |-> SubSeq(bytes, 5, 3 + bytes[4])]

\* faiss.read_index
read_index(bytes) ==
    [d |-> bytes[2], ntotal |-> bytes[3], xb |-> SubSeq(bytes, 5, 4 + bytes[4])]

(***************************************************************************)
(* JSON: a list of objects, each object the list of its (key, value)       *)
(* members in the order of the dataclass fields.                           *)
(***************************************************************************)
json_dumps(meta) ==
    [i \in 1 .. Len(meta) |->
        <<<<"chunk_id", meta[i].chunk_id>>, <<"text", meta[i].text>>,
          <<"source_file", meta[i].source_file>>,
          <<"start_char", meta[i].start_char>>, <<"end_char", meta[i].end_char>>>>]

Member(obj, key) == obj[CHOOSE j \in 1 .. Len(obj) : obj[j][1] = key][2]

json_loads(doc) ==
    [i \in 1 .. Len(doc) |->
        [chunk_id |-> Member(doc[i], "chunk_id"), text |-> Member(doc[i], "text"),
         source_file |-> Member(doc[i], "source_file"),
         start_char |-> Member(doc[i], "start_char"),
         end_char |-> Member(doc[i], "end_char")]]

(***************************************************************************)
(* FaissVectorStore.  Each method is an operator from the fields it reads  *)
(* to the fields it writes and the way the call ends.                      *)
(***************************************************************************)
ntotal(ix) == IF ix = None THEN 0 ELSE Get(ix).ntotal

\* add(embeddings, chunks) without the comparison of the two lengths
add_unchecked(ix, meta, embeddings, chunks) ==
    LET dim == embeddings.shape[2]
        ix1 == IF ix = None THEN IndexFlatIP(dim) ELSE Get(ix)
        r   == faiss_add(ix1, embeddings)
    IN  IF r.result # "ok"
        THEN [result |-> r.result, index |-> Some(ix1), metadata |-> meta]
        ELSE [result |-> "ok", index |-> Some(r.index),
              metadata |-> meta \o chunks]

\* add(embeddings, chunks)
add(ix, meta, embeddings, chunks) ==
    IF Len(chunks) # embeddings.shape[1]
    THEN [result |-> "ValueError", index |-> ix, metadata |-> meta]
    ELSE LET dim == embeddings.shape[2]
             ix1 == IF ix = None THEN IndexFlatIP(dim) ELSE Get(ix)
             r   == faiss_add(ix1, embeddings)
         IN  IF r.result # "ok"
             THEN [result |-> r.result, index |-> Some(ix1), metadata |-> meta]
             ELSE [result |-> "ok", index |-> Some(r.index),
                   metadata |-> meta \o chunks]

\* the loop of search without the test for -1: metadata[-1] is the last entry
RECURSIVE Decode_keeps_sentinel(_, _, _)
Decode_keeps_sentinel(meta, indices, scores) ==
    IF indices = <<>> THEN [result |-> "ok", out |-> <<>>]
    ELSE IF Head(indices) >= Len(meta) THEN [result |-> "IndexError", out |-> <<>>]
    ELSE LET rest == Decode_keeps_sentinel(meta, Tail(indices), Tail(scores))
             idx  == IF Head(indices) = -1 THEN Len(meta) - 1 ELSE Head(indices)
         IN  IF rest.result # "ok" THEN rest
             ELSE [result |-> "ok",
                   out |-> <<<<meta[idx + 1], Head(scores)>>>> \o rest.out]

\* the loop of search over zip(indices[0], scores[0])
RECURSIVE Decode(_, _, _)
Decode(meta, indices, scores) ==
    IF indices = <<>> THEN [result |-> "ok", out |-> <<>>]
    ELSE IF Head(indices) = -1 THEN Decode(meta, Tail(indices), Tail(scores))
    ELSE IF Head(indices) >= Len(meta) THEN [result |-> "IndexError", out |-> <<>>]
    ELSE LET rest == Decode(meta, Tail(indices), Tail(scores))
         IN  IF rest.result # "ok" THEN rest
             ELSE [result |-> "ok",
                   out |-> <<<<meta[Head(indices) + 1], Head(scores)>>>> \o rest.out]

\* search(query_vector, top_k)
search(ix, meta, query_vector, top_k) ==
    IF ix = None \/ ntotal(ix) = 0 THEN [result |-> "ok", out |-> <<>>]
    ELSE LET r == faiss_search(Get(ix), query_vector, top_k)
         IN  IF r.result # "ok" THEN [result |-> r.result, out |-> <<>>]
             ELSE Decode(meta, r.indices, r.scores)

\* save() that keeps the files it finds and writes only when one is missing
save_once(ix, meta, ifile, mfile) ==
    IF ix = None \/ (ifile # None /\ mfile # None)
    THEN [index_file |-> ifile, meta_file |-> mfile]
    ELSE [index_file |-> Some(write_index(Get(ix))),
          meta_file |-> Some(json_dumps(meta))]

\* save()
save(ix, meta, ifile, mfile) ==
    IF ix = None
    THEN [index_file |-> ifile, meta_file |-> mfile]
    ELSE [index_file |-> Some(write_index(Get(ix))),
          meta_file |-> Some(json_dumps(meta))]

\* load() returning early only when both files are missing ("and" for "or"):
\* with one file missing, read_index or read_text raises, the latter after
\* self.index has been replaced
load_and(ix, meta, ifile, mfile) ==
    IF ifile = None /\ mfile = None
    THEN [result |-> "False", index |-> ix, metadata |-> meta]
    ELSE IF ifile = None
    THEN [result |-> "RuntimeError", index |-> ix, metadata |-> meta]
    ELSE IF mfile = None
    THEN [result |-> "FileNotFoundError",
          index |-> Some(read_index(Get(ifile))), metadata |-> meta]
    ELSE [result |-> "True", index |-> Some(read_index(Get(ifile))),
          metadata |-> json_loads(Get(mfile))]

\* load()
load(ix, meta, ifile, mfile) ==
    IF ifile = None \/ mfile = None
    THEN [result |-> "False", index |-> ix, metadata |-> meta]
    ELSE [result |-> "True", index |-> Some(read_index(Get(ifile))),
          metadata |-> json_loads(Get(mfile))]

\* clear() removing the metadata file only when the index file is absent
clear_elif(ix, meta, ifile, mfile) ==
    [result |-> "ok", index |-> None, metadata |-> <<>>,
     index_file |-> IF ifile # None THEN None ELSE ifile,
     meta_file |-> IF ifile # None THEN mfile
                   ELSE IF mfile # None THEN None ELSE mfile]

\* clear()
clear(ix, meta, ifile, mfile) ==
    [result |-> "ok", index |-> None, metadata |-> <<>>,
     index_file |-> IF ifile # None THEN None ELSE ifile,
     meta_file |-> IF mfile # None THEN None ELSE mfile]

(***************************************************************************)
(* Inputs of the store's methods.                                          *)
(***************************************************************************)
Dims == {1, 2}

\* unit vectors of width w, in tenths
Rows(w) == IF w = 1 THEN {<<10>>, <<-10>>} ELSE {<<10, 0>>, <<6, 8>>}

SeqsUpTo(S, n) == UNION {[1 .. m -> S] : m \in 0 .. n}

Chunk(id, txt, src, s, e) ==
    [chunk_id |-> id, text |-> txt, source_file |-> src,
     start_char |-> s, end_char |-> e]

\* the m chunks of an add: the chunks of doc.txt that follow the ones the
\* store already holds, so that all stored chunks differ
ChunkInputs(meta, m) ==
    [i \in 1 .. m |->
        LET j == Len(meta) + i - 1
        IN  Chunk("doc.txt-" \o ToString(j),
                  IF j % 2 = 0 THEN <<"a", "b">> ELSE <<"b", "a">>,
                  "doc.txt", j, j + 2)]

EmbeddingInputs ==
    UNION {{Array(rows, w) : rows \in SeqsUpTo(Rows(w), MaxBatch)} : w \in Dims}

QueryInputs == UNION {Rows(w) : w \in Dims}

TopKInputs == 0 .. MaxK

NoArgs == [none |-> TRUE]

(***************************************************************************)
(* The store's methods as actions on one store object and its two files.   *)
(***************************************************************************)
Add(embeddings, chunks) ==
    LET r == add(index, metadata, embeddings, chunks)
    IN  /\ ntotal(r.index) <= MaxTotal
        /\ index' = r.index
        /\ metadata' = r.metadata
        /\ op' = "add"
        /\ args' = [shape |-> embeddings.shape, chunks |-> Len(chunks)]
        /\ result' = r.result
        /\ out' = <<>>
        /\ UNCHANGED <<index_file, meta_file, freshVars, chunker, stages, uploads, pending>>

Search(query_vector, top_k) ==
    LET r == search(index, metadata, query_vector, top_k)
    IN  /\ op' = "search"
        /\ args' = [query_vector |-> query_vector, top_k |-> top_k]
        /\ result' = r.result
        /\ out' = r.out
        /\ UNCHANGED <<storeVars, freshVars, chunker, stages, uploads, pending>>

Save ==
    LET r == save(index, metadata, index_file, meta_file)
    IN  /\ index_file' = r.index_file
        /\ meta_file' = r.meta_file
        /\ op' = "save"
        /\ args' = NoArgs
        /\ result' = "ok"
        /\ out' = <<>>
        /\ UNCHANGED <<index, metadata, freshVars, chunker, stages, uploads, pending>>

Load ==
    LET r == load(index, metadata, index_file, meta_file)
    IN  /\ index' = r.index
        /\ metadata' = r.metadata
        /\ op' = "load"
        /\ args' = NoArgs
        /\ result' = r.result
        /\ out' = <<>>
        /\ UNCHANGED <<index_file, meta_file, freshVars, chunker, stages, uploads, pending>>

Clear ==
    LET r == clear(index, metadata, index_file, meta_file)
    IN  /\ index' = r.index
        /\ metadata' = r.metadata
        /\ index_file' = r.index_file
        /\ meta_file' = r.meta_file
        /\ op' = "clear"
        /\ args' = [index_path_exists |-> index_file # None,
                    meta_path_exists |-> meta_file # None]
        /\ result' = r.result
        /\ out' = <<>>
        /\ stages' = <<>>
        /\ UNCHANGED <<freshVars, chunker, uploads, pending>>

\* build_services: a new FaissVectorStore() on the same index name, then load()
FreshLoad ==
    LET r == load(None, <<>>, index_file, meta_file)
    IN  /\ fresh_index' = r.index
        /\ fresh_metadata' = r.metadata
        /\ op' = "fresh_load"
        /\ args' = NoArgs
        /\ result' = r.result
        /\ out' = <<>>
        /\ UNCHANGED <<storeVars, chunker, stages, uploads, pending>>

InitStore ==
    /\ index = None
    /\ metadata = <<>>
    /\ index_file = None
    /\ meta_file = None
    /\ fresh_index = None
    /\ fresh_metadata = <<>>
    /\ op = "init"
    /\ args = NoArgs
    /\ result = "ok"
    /\ out = <<>>
    /\ stages = <<>>
    /\ uploads = {}
    /\ pending = None

Init ==
    /\ InitStore
    /\ chunker = None

Next ==
    \/ \E e \in EmbeddingInputs, m \in 0 .. MaxBatch :
           Add(e, ChunkInputs(metadata, m))
    \/ \E q \in QueryInputs, k \in TopKInputs : Search(q, k)
    \/ Save
    \/ Load
    \/ Clear

\* the store's methods in any order, on one store object
Spec == Init /\ [][Next]_vars

\* another process removes one of the two files of the index directory
RemoveArtifact(which) ==
    /\ IF which = "index" THEN index_file # None ELSE meta_file # None
    /\ index_file' = IF which = "index" THEN None ELSE index_file
    /\ meta_file' = IF which = "meta" THEN None ELSE meta_file
    /\ op' = "remove"
    /\ args' = [which |-> which]
    /\ result' = "ok"
    /\ out' = <<>>
    /\ UNCHANGED <<index, metadata, freshVars, chunker, stages, uploads, pending>>

NextFresh ==
    \/ \E e \in EmbeddingInputs, m \in 0 .. MaxBatch :
           Add(e, ChunkInputs(metadata, m))
    \/ Save
    \/ Load
    \/ Clear
    \/ FreshLoad

\* the store's methods and the start of a new process on the same files
SpecFresh == Init /\ [][NextFresh]_vars

NextEnv ==
    \/ \E e \in EmbeddingInputs, m \in 0 .. MaxBatch :
           Add(e, ChunkInputs(metadata, m))
    \/ Save
    \/ Load
    \/ Clear
    \/ \E which \in {"index", "meta"} : RemoveArtifact(which)

\* the store's methods on files that may go missing one by one
SpecEnv == Init /\ [][NextEnv]_vars

(***************************************************************************)
(* Properties of the store.                                                *)
(***************************************************************************)
\* the stored entries: the vector and the metadata of each position
Entries(ix, meta) ==
    [i \in 1 .. Min(ntotal(ix), Len(meta)) |-> <<Row(Get(ix), i - 1), meta[i]>>]

\* C1: in every state reached by add, save, load and clear, also after a
\* rejected add, the number of stored vectors equals len(metadata).
C1_VectorsMatchMetadata == ntotal(index) = Len(metadata)

C1_Witness ==
    /\ op = "add"
    /\ result = "ValueError"
    /\ ntotal(index) >= 1

\* C2: save() and then load() on a fresh store of the same index name gives
\* the same vectors and metadata in the same order, and so the same search
\* results for every query vector and every top_k >= 1.
C2_RoundTrip ==
    [][(op = "save" /\ index # None /\ op' = "fresh_load") =>
         /\ result' = "True"
         /\ fresh_index' = index
         /\ fresh_metadata' = metadata
         /\ \A q \in QueryInputs, k \in 1 .. MaxK :
              search(fresh_index', fresh_metadata', q, k)
                = search(index, metadata, q, k)]_vars

C2_Witness ==
    /\ op = "fresh_load"
    /\ result = "True"
    /\ ntotal(fresh_index) >= 2
    /\ fresh_index = index
    /\ fresh_metadata = metadata

C6_SearchTopK ==
    (/\ op = "search"
     /\ args.top_k >= 1
     /\ (ntotal(index) = 0 \/ Len(args.query_vector) = Get(index).d)) =>
        LET n == ntotal(index)
            q == args.query_vector
        IN  /\ result = "ok"
            /\ Len(out) = Min(args.top_k, n)
            /\ \A j \in 1 .. Len(out) - 1 : out[j][2] >= out[j + 1][2]
            /\ \E P \in [1 .. Len(out) -> 0 .. n - 1] :
                 /\ \A i, j \in 1 .. Len(out) : i # j => P[i] # P[j]
                 /\ \A j \in 1 .. Len(out) :
                      /\ out[j][1] = metadata[P[j] + 1]
                      /\ out[j][2] = Score(Get(index), q, P[j])
                 /\ \A p \in 0 .. n - 1 :
                      (\A j \in 1 .. Len(out) : P[j] # p) =>
                         \A j \in 1 .. Len(out) :
                            Score(Get(index), q, p) <= out[j][2]

C6_Witness ==
    /\ op = "search"
    /\ result = "ok"
    /\ ntotal(index) = 2
    /\ args.top_k > 2
    /\ Len(out) = 2
    /\ out[1][2] > out[2][2]
    /\ out[1][1] = metadata[2]

\* C7: clear() from any state leaves no index, no metadata and neither
\* file, so that load() returns false and search returns nothing; a second
\* clear() in a row ends without error in the same state.
C7_ClearTotalIdempotent ==
    /\ [](op = "clear" =>
            /\ result = "ok"
            /\ index = None /\ metadata = <<>>
            /\ index_file = None /\ meta_file = None
            /\ load(index, metadata, index_file, meta_file).result = "False"
            /\ \A q \in QueryInputs, k \in 1 .. MaxK :
                 search(index, metadata, q, k) = [result |-> "ok", out |-> <<>>])
    /\ [][(op = "clear" /\ op' = "clear") =>
            result' = "ok" /\ UNCHANGED storeVars]_vars

C7_Witness ==
    /\ op = "clear"
    /\ result = "ok"
    /\ ~args.index_path_exists
    /\ args.meta_path_exists
    /\ meta_file = None

\* C8: the vectors of one index all have the width D of the first add; an
\* add of another width fails and leaves vectors and metadata as they were.
C8_OneDimension ==
    /\ [](index # None =>
            Len(Get(index).xb) = Get(index).d * Get(index).ntotal)
    /\ [][/\ (index # None /\ index' # None) => Get(index').d = Get(index).d
          /\ (op' = "add" /\ index # None /\ args'.shape[2] # Get(index).d) =>
                /\ result' \in {"ValueError", "AssertionError"}
                /\ args'.chunks = args'.shape[1] => result' = "AssertionError"
                /\ index' = index
                /\ metadata' = metadata]_vars

C8_Witness ==
    /\ op = "add"
    /\ result = "AssertionError"
    /\ ntotal(index) >= 1
    /\ args.shape[2] # Get(index).d

(***************************************************************************)
(* core/chunker.py                                                         *)
(***************************************************************************)
IsSpace(c) == c \in {" ", "\n"}

\* str.strip()
RECURSIVE lstrip(_)
lstrip(t) ==
    IF t # <<>> /\ IsSpace(Head(t)) THEN lstrip(Tail(t)) ELSE t

RECURSIVE rstrip(_)
rstrip(t) ==
    IF t # <<>> /\ IsSpace(t[Len(t)]) THEN rstrip(SubSeq(t, 1, Len(t) - 1)) ELSE t

strip(t) == rstrip(lstrip(t))

\* text[start:end] for 0 <= start <= end <= len(text)
Slice(t, start, end) == SubSeq(t, start + 1, end)

\* TextChunker.__init__
TextChunker(chunk_size, overlap) ==
    IF overlap >= chunk_size
    THEN [result |-> "ValueError", chunker |-> None]
    ELSE [result |-> "ok",
          chunker |-> Some([chunk_size |-> chunk_size, overlap |-> overlap])]

\* the loop of chunk_document numbering the windows, not the chunks: a
\* window that is empty after strip() uses up an ordinal
RECURSIVE ChunkLoop_counts_windows(_, _, _, _, _, _)
ChunkLoop_counts_windows(ck, text, source_file, start, idx, chunks) ==
    IF start >= Len(text) THEN chunks
    ELSE LET step   == ck.chunk_size - ck.overlap
             end    == Min(start + ck.chunk_size, Len(text))
             window == strip(Slice(text, start, end))
         IN  IF window = <<>>
             THEN ChunkLoop_counts_windows(ck, text, source_file, start + step,
                                           idx + 1, chunks)
             ELSE LET c == Chunk(source_file \o "-" \o ToString(idx), window,
                                 source_file, start, end)
                  IN  IF end = Len(text)
                      THEN Append(chunks, c)
                      ELSE ChunkLoop_counts_windows(ck, text, source_file,
                                                    start + step, idx + 1,
                                                    Append(chunks, c))

\* the body of the loop of chunk_document, from window start on, with
\* index chunks emitted so far
RECURSIVE ChunkLoop(_, _, _, _, _, _)
ChunkLoop(ck, text, source_file, start, idx, chunks) ==
    IF start >= Len(text) THEN chunks
    ELSE LET step   == ck.chunk_size - ck.overlap
             end    == Min(start + ck.chunk_size, Len(text))
             window == strip(Slice(text, start, end))
         IN  IF window = <<>>
             THEN ChunkLoop(ck, text, source_file, start + step, idx, chunks)
             ELSE LET c == Chunk(source_file \o "-" \o ToString(idx), window,
                                 source_file, start, end)
                  IN  IF end = Len(text)
                      THEN Append(chunks, c)
                      ELSE ChunkLoop(ck, text, source_file, start + step,
                                     idx + 1, Append(chunks, c))

\* TextChunker.chunk_document
chunk_document(ck, text, source_file) ==
    ChunkLoop(ck, text, source_file, 0, 0, <<>>)

TextInputs == SeqsUpTo({"a", " "}, MaxTextLen)

Construct(chunk_size, overlap) ==
    LET r == TextChunker(chunk_size, overlap)
    IN  /\ chunker' = IF r.result = "ok" THEN r.chunker ELSE chunker
        /\ op' = "TextChunker"
        /\ args' = [chunk_size |-> chunk_size, overlap |-> overlap]
        /\ result' = r.result
        /\ out' = <<>>
        /\ UNCHANGED <<storeVars, freshVars, stages, uploads, pending>>

ChunkDocument(text, source_file) ==
    /\ chunker # None
    /\ op' = "chunk_document"
    /\ args' = [text |-> text, source_file |-> source_file]
    /\ result' = "ok"
    /\ out' = chunk_document(Get(chunker), text, source_file)
    /\ UNCHANGED <<storeVars, freshVars, chunker, stages, uploads, pending>>

\* Settings.chunk_size and Settings.chunk_overlap
chunk_size == 700
chunk_overlap == 120

\* a text of 2,000 letters
LongText == [i \in 1 .. 2000 |-> "a"]

\* chunk_document of the chunker of the settings on a long text
ChunkLongDocument(text, source_file) ==
    /\ chunker = TextChunker(chunk_size, chunk_overlap).chunker
    /\ ChunkDocument(text, source_file)

NextChunk ==
    \/ \E cs \in 1 .. MaxChunkSize, ov \in -1 .. MaxChunkSize : Construct(cs, ov)
    \/ Construct(chunk_size, chunk_overlap)
    \/ \E t \in TextInputs : ChunkDocument(t, "doc")
    \/ ChunkLongDocument(LongText, "doc")

\* chunkers of every accepted configuration applied to every short text
SpecChunk == Init /\ [][NextChunk]_vars

\* every character of text[from:to] is whitespace
Blank(text, from, to) == \A p \in from + 1 .. to : IsSpace(text[p])

\* the windows of the chunks cover the text but for whitespace
Covers(text, chunks) ==
    /\ \A i \in 1 .. Len(chunks) - 1 :
         \/ chunks[i + 1].start_char <= chunks[i].end_char
         \/ Blank(text, chunks[i].end_char, chunks[i + 1].start_char)
    /\ chunks # <<>> =>
         /\ chunks[1].start_char = 0 \/ Blank(text, 0, chunks[1].start_char)
         /\ \/ chunks[Len(chunks)].end_char = Len(text)
            \/ Blank(text, chunks[Len(chunks)].end_char, Len(text))
    /\ chunks = <<>> => Blank(text, 0, Len(text))

\* C10: for every text and every chunker constructed with overlap <
\* chunk_size, consecutive chunks leave no gap, the first window starts at
\* 0 and the last ends at len(text), apart from skipped whitespace.
C10_NoGap == op = "chunk_document" => Covers(args.text, out)

\* the same for the chunkers whose overlap is not negative
C10_NoGapWhenOverlapNotNegative ==
    (op = "chunk_document" /\ Get(chunker).overlap >= 0) => Covers(args.text, out)

(***************************************************************************)
(* utils/helpers.py, core/loader.py, core/cleaner.py, core/embedder.py     *)
(***************************************************************************)
ALLOWED_EXTENSIONS == {".pdf", ".txt", ".docx"}

max_file_size_mb == 10

retriever_top_k == 5

\* settings.retriever_score_threshold, 0.30, in hundredths
retriever_score_threshold == 30

\* chunk_size and overlap of the ingesting chunker, small like the texts
\* of the model (settings.chunk_size and settings.chunk_overlap default to
\* 700 and 120)
CfgChunkSize == 4
CfgOverlap == 1

\* str.lower() on the suffixes in use
lower(suffix) ==
    CASE suffix = ".TXT" -> ".txt"
      [] suffix = ".PDF" -> ".pdf"
      [] suffix = ".DOCX" -> ".docx"
      [] OTHER -> suffix

\* a file name is its stem and its suffix; Path(name).name
PathName(name) == name.stem \o name.suffix

is_allowed_file(file_name) == lower(file_name.suffix) \in ALLOWED_EXTENSIONS

mb_to_bytes(size_mb) == size_mb * 1024 * 1024

\* DocumentLoader.validate_file
validate_file(file_name, file_size) ==
    IF ~is_allowed_file(file_name) THEN "FileValidationError"
    ELSE IF file_size > mb_to_bytes(max_file_size_mb) THEN "FileValidationError"
    ELSE "ok"

\* DocumentLoader.load_text: the reader of the suffix, which may raise on a
\* file it cannot parse; extracted tells whether a reader was called
load_text(file) ==
    LET suffix == lower(file.name.suffix)
    IN  IF suffix \in {".pdf", ".txt", ".docx"}
        THEN IF file.readable
             THEN [result |-> "ok", text |-> file.raw, extracted |-> TRUE]
             ELSE [result |-> "ExtractionError", text |-> <<>>, extracted |-> TRUE]
        ELSE [result |-> "FileValidationError", text |-> <<>>, extracted |-> FALSE]

\* text.replace("\x00", " ")
ReplaceNul(t) == [i \in 1 .. Len(t) |-> IF t[i] = "NUL" THEN " " ELSE t[i]]

\* re.sub(r"[\u200b-\u200f\ufeff]", "", text)
RECURSIVE RemoveZeroWidth(_)
RemoveZeroWidth(t) ==
    IF t = <<>> THEN <<>>
    ELSE IF Head(t) = "ZWSP" THEN RemoveZeroWidth(Tail(t))
    ELSE <<Head(t)>> \o RemoveZeroWidth(Tail(t))

\* re.sub(r"\n{3,}", "\n\n", text), done: the part already rewritten
RECURSIVE CollapseNewlines(_, _)
CollapseNewlines(t, done) ==
    IF t = <<>> THEN done
    ELSE IF /\ Head(t) = "\n"
            /\ Len(done) >= 2
            /\ done[Len(done)] = "\n"
            /\ done[Len(done) - 1] = "\n"
         THEN CollapseNewlines(Tail(t), done)
         ELSE CollapseNewlines(Tail(t), Append(done, Head(t)))

\* re.sub(r"\s+", " ", text)
RECURSIVE CollapseSpace(_, _)
CollapseSpace(t, done) ==
    IF t = <<>> THEN done
    ELSE IF IsSpace(Head(t))
         THEN IF done # <<>> /\ done[Len(done)] = " "
              THEN CollapseSpace(Tail(t), done)
              ELSE CollapseSpace(Tail(t), Append(done, " "))
         ELSE CollapseSpace(Tail(t), Append(done, Head(t)))

normalize_whitespace(t) == strip(CollapseSpace(t, <<>>))

\* TextCleaner.clean
clean(t) ==
    normalize_whitespace(CollapseNewlines(RemoveZeroWidth(ReplaceNul(t)), <<>>))

\* the embedding model: one unit vector per text, the same for the same
\* text, different ones for the chunk texts of the files below
embed_one(t) ==
    IF t # <<>> /\ Head(t) = "a" THEN <<10, 0>>
    ELSE IF t # <<>> /\ Head(t) = "b"
         THEN IF Len(t) % 2 = 0 THEN <<6, 8>> ELSE <<8, 6>>
    ELSE <<0, 10>>

\* BaseEmbedder.encode
encode(texts) == Array([i \in 1 .. Len(texts) |-> embed_one(texts[i])], 2)

(***************************************************************************)
(* services/ingestion_service.py.  st is the store: its two fields and its *)
(* two files.  ok tells whether the embedding provider answers.            *)
(***************************************************************************)
Store(ix, meta, ifile, mfile) ==
    [index |-> ix, metadata |-> meta, index_file |-> ifile, meta_file |-> mfile]

Ended(res, st, calls, summary) ==
    [result |-> res, store |-> st, stages |-> calls, out |-> summary]

\* ingest_path with the embeddings added batch by batch: the first chunk is
\* in the index when the provider fails
ingest_path_streaming(file, ck, st, ok) ==
    LET loaded  == load_text(file)
        read    == <<"load_text">> \o (IF loaded.extracted THEN <<"extract">> ELSE <<>>)
        cleaned == clean(loaded.text)
        chunks  == chunk_document(ck, cleaned, PathName(file.name))
        texts   == [i \in 1 .. Len(chunks) |-> chunks[i].text]
        first   == add(st.index, st.metadata, encode(<<texts[1]>>), <<chunks[1]>>)
        added   == add(st.index, st.metadata, encode(texts), chunks)
        saved   == save(added.index, added.metadata, st.index_file, st.meta_file)
    IN  IF loaded.result # "ok" THEN Ended(loaded.result, st, read, <<>>)
        ELSE IF chunks = <<>>
        THEN Ended("ValueError", st, read \o <<"clean", "chunk_document">>, <<>>)
        ELSE IF ~ok
        THEN Ended("EmbeddingError",
                   Store(first.index, first.metadata, st.index_file, st.meta_file),
                   read \o <<"clean", "chunk_document", "encode", "add">>, <<>>)
        ELSE Ended("ok",
                   Store(added.index, added.metadata, saved.index_file, saved.meta_file),
                   read \o <<"clean", "chunk_document", "encode", "add", "save">>,
                   <<[file_name |-> PathName(file.name), chunks_indexed |-> Len(chunks)]>>)

\* IngestionService.ingest_path
ingest_path(file, ck, st, ok) ==
    LET loaded  == load_text(file)
        read    == <<"load_text">> \o (IF loaded.extracted THEN <<"extract">> ELSE <<>>)
        cleaned == clean(loaded.text)
        chunks  == chunk_document(ck, cleaned, PathName(file.name))
        texts   == [i \in 1 .. Len(chunks) |-> chunks[i].text]
        added   == add(st.index, st.metadata, encode(texts), chunks)
        saved   == save(added.index, added.metadata, st.index_file, st.meta_file)
    IN  IF loaded.result # "ok" THEN Ended(loaded.result, st, read, <<>>)
        ELSE IF chunks = <<>>
        THEN Ended("ValueError", st, read \o <<"clean", "chunk_document">>, <<>>)
        ELSE IF ~ok
        THEN Ended("EmbeddingError", st,
                   read \o <<"clean", "chunk_document", "encode">>, <<>>)
        ELSE IF added.result # "ok"
        THEN Ended(added.result,
                   Store(added.index, added.metadata, st.index_file, st.meta_file),
                   read \o <<"clean", "chunk_document", "encode", "add">>, <<>>)
        ELSE Ended("ok",
                   Store(added.index, added.metadata, saved.index_file, saved.meta_file),
                   read \o <<"clean", "chunk_document", "encode", "add", "save">>,
                   <<[file_name |-> PathName(file.name), chunks_indexed |-> Len(chunks)]>>)

\* IngestionService.ingest_uploaded_file: the outcome and whether the
\* upload was written to settings.upload_dir
ingest_uploaded_file(file, ck, st, ok) ==
    IF validate_file(file.name, file.size) # "ok"
    THEN [ended |-> Ended("FileValidationError", st, <<"validate_file">>, <<>>),
          saved_upload |-> FALSE]
    ELSE LET r == ingest_path(file, ck, st, ok)
         IN  [ended |-> [r EXCEPT !.stages =
                           <<"validate_file", "save_uploaded_file">> \o @],
              saved_upload |-> TRUE]

(***************************************************************************)
(* core/retriever.py                                                       *)
(***************************************************************************)
RetrievedChunk(text, source_file, score) ==
    [text |-> text, source_file |-> source_file, score |-> score]

\* sorted(items, key=lambda x: x.score, reverse=True): stable
RECURSIVE SortedByScore(_)
SortedByScore(items) ==
    IF items = <<>> THEN <<>>
    ELSE LET x    == Head(items)
             rest == SortedByScore(Tail(items))
             n    == Cardinality({j \in 1 .. Len(rest) : rest[j].score > x.score})
         IN  SubSeq(rest, 1, n) \o <<x>> \o SubSeq(rest, n + 1, Len(rest))

\* the comprehension of retrieve: the results at or above the threshold
RECURSIVE Filtered(_)
Filtered(raw) ==
    IF raw = <<>> THEN <<>>
    ELSE (IF Head(raw)[2] >= retriever_score_threshold
          THEN <<RetrievedChunk(Head(raw)[1].text, Head(raw)[1].source_file,
                                Head(raw)[2])>>
          ELSE <<>>) \o Filtered(Tail(raw))

\* the comprehension of retrieve without its condition
RECURSIVE Unfiltered(_)
Unfiltered(raw) ==
    IF raw = <<>> THEN <<>>
    ELSE <<RetrievedChunk(Head(raw)[1].text, Head(raw)[1].source_file,
                          Head(raw)[2])>> \o Unfiltered(Tail(raw))

\* Retriever.retrieve with the threshold left out
retrieve_unfiltered(ix, meta, query, top_k, ok) ==
    LET k   == IF top_k = 0 THEN retriever_top_k ELSE top_k
        raw == search(ix, meta, encode(<<query>>).data, k)
    IN  IF ~ok THEN [result |-> "EmbeddingError", out |-> <<>>]
        ELSE IF raw.result # "ok" THEN [result |-> raw.result, out |-> <<>>]
        ELSE [result |-> "ok", out |-> SortedByScore(Unfiltered(raw.out))]

\* Retriever.retrieve; top_k = 0 stands for a top_k that is None or 0
retrieve(ix, meta, query, top_k, ok) ==
    LET k   == IF top_k = 0 THEN retriever_top_k ELSE top_k
        raw == search(ix, meta, encode(<<query>>).data, k)
    IN  IF ~ok THEN [result |-> "EmbeddingError", out |-> <<>>]
        ELSE IF raw.result # "ok" THEN [result |-> raw.result, out |-> <<>>]
        ELSE [result |-> "ok", out |-> SortedByScore(Filtered(raw.out))]

(***************************************************************************)
(* The files offered for ingestion and the questions asked.                *)
(***************************************************************************)
File(stem, suffix, size, readable, raw) ==
    [name |-> [stem |-> stem, suffix |-> suffix], size |-> size,
     readable |-> readable, raw |-> raw]

Files ==
    {File("a", ".txt", 5, TRUE, <<"a", "NUL", "\n", "ZWSP", "a">>),
     File("b", ".TXT", 6, TRUE, <<"b", "b", " ", "b", " ", "b">>),
     File("empty", ".txt", 0, TRUE, <<>>),
     File("big", ".txt", mb_to_bytes(max_file_size_mb) + 1, TRUE, <<"c">>),
     File("notes", ".md", 2, TRUE, <<"a", "b">>),
     File("scan", ".pdf", 9, FALSE, <<>>)}

Queries == {<<"a">>, <<"b">>, <<"c">>}

IngestOps == {"ingest_path", "ingest_uploaded_file"}

CurrentStore == Store(index, metadata, index_file, meta_file)

Finish(name, file, ok, r) ==
    /\ ntotal(r.store.index) <= MaxTotal
    /\ index' = r.store.index
    /\ metadata' = r.store.metadata
    /\ index_file' = r.store.index_file
    /\ meta_file' = r.store.meta_file
    /\ op' = name
    /\ args' = [file |-> file, embed_ok |-> ok]
    /\ result' = r.result
    /\ out' = r.out
    /\ stages' = r.stages

IngestPath(file, ok) ==
    /\ Finish("ingest_path", file, ok,
              ingest_path(file, Get(chunker), CurrentStore, ok))
    /\ UNCHANGED <<freshVars, chunker, uploads, pending>>

IngestUploadedFile(file, ok) ==
    LET r == ingest_uploaded_file(file, Get(chunker), CurrentStore, ok)
    IN  /\ Finish("ingest_uploaded_file", file, ok, r.ended)
        /\ uploads' = IF r.saved_upload
                      THEN uploads \cup {PathName(file.name)} ELSE uploads
        /\ UNCHANGED <<freshVars, chunker, pending>>

Retrieve(query, top_k, ok) ==
    LET r == retrieve(index, metadata, query, top_k, ok)
    IN  /\ op' = "retrieve"
        /\ args' = [query |-> query, top_k |-> top_k, embed_ok |-> ok]
        /\ result' = r.result
        /\ out' = r.out
        /\ stages' = <<>>
        /\ UNCHANGED <<storeVars, freshVars, chunker, uploads, pending>>

\* build_services: the chunker of the settings
InitIngest ==
    /\ InitStore
    /\ chunker = TextChunker(CfgChunkSize, CfgOverlap).chunker

NextIngest ==
    \/ \E f \in Files, ok \in BOOLEAN : IngestUploadedFile(f, ok)
    \/ \E f \in Files, ok \in BOOLEAN : IngestPath(f, ok)
    \/ \E q \in Queries, k \in 0 .. MaxK, ok \in BOOLEAN : Retrieve(q, k, ok)
    \/ Clear

\* ingestions, questions and clears on the services of one process
SpecIngest == InitIngest /\ [][NextIngest]_vars

(***************************************************************************)
(* Properties of ingestion and retrieval.                                  *)
(***************************************************************************)
Range(seq) == {seq[i] : i \in 1 .. Len(seq)}

\* the calls made come in the order of the pipeline, none left out
InPipelineOrder(calls) ==
    \/ IsPrefix(calls, <<"load_text", "extract", "clean", "chunk_document",
                         "encode", "add", "save">>)
    \/ IsPrefix(calls, <<"validate_file", "save_uploaded_file", "load_text",
                         "extract", "clean", "chunk_document", "encode",
                         "add", "save">>)

\* C4: an ingestion that fails at validation, extraction, chunking to zero
\* chunks or embedding leaves vectors, metadata and both files as they
\* were; add and save are called only after every earlier stage succeeded.
C4_FailedIngestLeavesIndex ==
    [][op' \in IngestOps =>
         /\ result' \in {"FileValidationError", "ExtractionError",
                         "ValueError", "EmbeddingError"} =>
               /\ UNCHANGED storeVars
               /\ ntotal(index') = ntotal(index)
               /\ "add" \notin Range(stages')
               /\ "save" \notin Range(stages')
         /\ "add" \in Range(stages') =>
               /\ InPipelineOrder(stages')
               /\ args'.embed_ok
               /\ load_text(args'.file).result = "ok"
         /\ "save" \in Range(stages') =>
               "add" \in Range(stages') /\ result' = "ok"]_vars

C4_Witness ==
    /\ op = "ingest_uploaded_file"
    /\ args.file.name.stem = "empty"
    /\ args.file.size = 0
    /\ result = "ValueError"
    /\ ntotal(index) >= 1
    /\ index_file # None

\* no stored vector scores at or above the threshold for the query
NothingClears(query) ==
    \A p \in 0 .. ntotal(index) - 1 :
        Score(Get(index), embed_one(query), p) < retriever_score_threshold

\* C5 as stated: retrieve returns no item below the threshold, the items
\* strictly descending by score, and an empty list when nothing clears.
C5_ThresholdStrictlyDescending ==
    op = "retrieve" =>
        /\ args.embed_ok => result = "ok"
        /\ \A j \in 1 .. Len(out) : out[j].score >= retriever_score_threshold
        /\ \A j \in 1 .. Len(out) - 1 : out[j].score > out[j + 1].score
        /\ (args.embed_ok /\ NothingClears(args.query)) => out = <<>>

\* C5 amended: the items are in descending order of score, equal scores
\* next to each other.
C5_ThresholdDescending ==
    op = "retrieve" =>
        /\ args.embed_ok => result = "ok"
        /\ \A j \in 1 .. Len(out) : out[j].score >= retriever_score_threshold
        /\ \A j \in 1 .. Len(out) - 1 : out[j].score >= out[j + 1].score
        /\ (args.embed_ok /\ NothingClears(args.query)) => out = <<>>

C5_Witness ==
    /\ op = "retrieve"
    /\ result = "ok"
    /\ ntotal(index) = 2
    /\ args.top_k = 2
    /\ Len(out) = 1
    /\ ~NothingClears(args.query)

C5_WitnessNothingClears ==
    /\ op = "retrieve"
    /\ result = "ok"
    /\ ntotal(index) >= 1
    /\ NothingClears(args.query)
    /\ out = <<>>

\* the stages that work on the content of the file or on the index
WorkStages == {"extract", "clean", "chunk_document", "encode", "add", "save"}

Rejectable(file) ==
    \/ ~is_allowed_file(file.name)
    \/ file.size > mb_to_bytes(max_file_size_mb)

\* C9: through ingest_uploaded_file and through ingest_path, a file of an
\* unsupported type or over the maximum size fails with ValidationError
\* before extraction, chunking, embedding or a change of the index.
C9_ValidationFirst ==
    [][(op' \in IngestOps /\ Rejectable(args'.file)) =>
         /\ result' = "FileValidationError"
         /\ Range(stages') \cap WorkStages = {}
         /\ UNCHANGED storeVars]_vars

\* the same for ingest_uploaded_file alone, and for ingest_path on the
\* unsupported types alone
C9_ValidationFirstOnUpload ==
    [][(/\ op' \in IngestOps
        /\ Rejectable(args'.file)
        /\ op' = "ingest_path" => ~is_allowed_file(args'.file.name)) =>
         /\ result' = "FileValidationError"
         /\ Range(stages') \cap WorkStages = {}
         /\ UNCHANGED storeVars]_vars

(***************************************************************************)
(* Sessions of the app share the one store that build_services caches.     *)
(* Each session runs in a thread of its own, and the store takes no lock:  *)
(* the thread that runs add can be suspended between self.index.add and    *)
(* self.metadata.extend while the thread of another session runs search.   *)
(* One add is in flight at a time (a single writer); clear is a writer.    *)
(***************************************************************************)
\* add(embeddings, chunks) up to and including self.index.add(embeddings)
AddIndex(embeddings, chunks) ==
    LET r == add(index, metadata, embeddings, chunks)
    IN  /\ pending = None
        /\ ntotal(r.index) <= MaxTotal
        /\ index' = r.index
        /\ pending' = IF r.result = "ok" THEN Some(chunks) ELSE None
        /\ op' = IF r.result = "ok" THEN "index.add" ELSE "add"
        /\ args' = [shape |-> embeddings.shape, chunks |-> Len(chunks)]
        /\ result' = r.result
        /\ out' = <<>>
        /\ UNCHANGED <<metadata, index_file, meta_file, freshVars, chunker,
                       stages, uploads>>

\* the rest of that add: self.metadata.extend(asdict(chunk) for chunk in chunks)
AddExtend ==
    /\ pending # None
    /\ metadata' = metadata \o Get(pending)
    /\ pending' = None
    /\ op' = "add"
    /\ args' = [shape |-> <<Len(Get(pending)), Get(index).d>>,
                chunks |-> Len(Get(pending))]
    /\ result' = "ok"
    /\ out' = <<>>
    /\ UNCHANGED <<index, index_file, meta_file, freshVars, chunker, stages,
                   uploads>>

\* clear() by the session that is the writer, so not during its add
ClearBetweenAdds ==
    /\ pending = None
    /\ Clear

NextShared ==
    \/ \E e \in EmbeddingInputs, m \in 0 .. MaxBatch :
           AddIndex(e, ChunkInputs(metadata, m))
    \/ AddExtend
    \/ \E q \in QueryInputs, k \in TopKInputs : Search(q, k)
    \/ ClearBetweenAdds

\* one writer session and reader sessions on the shared store
SpecShared == Init /\ [][NextShared]_vars

\* C11: a search that runs while an add is in flight (after index.add, before
\* metadata.extend) does not fail on a vector whose metadata entry is not yet
\* there, and every item it returns pairs a stored entry with its own score
C11_AddAtomicForReaders ==
    (op = "search" /\ pending # None) =>
        /\ result # "IndexError"
        /\ \A j \in 1 .. Len(out) :
               \E i \in 1 .. Min(ntotal(index), Len(metadata)) :
                   /\ out[j][1] = metadata[i]
                   /\ out[j][2] = Score(Get(index), args.query_vector, i - 1)

\* what does hold: the two steps together are add, so with no add in flight
\* the vectors and the metadata entries are as many, and a search raises
\* IndexError only while an add is in flight
C11_ConsistentBetweenAdds ==
    /\ pending = None => ntotal(index) = Len(metadata)
    /\ pending # None => ntotal(index) = Len(metadata) + Len(Get(pending))
    /\ (op = "search" /\ result = "IndexError") => pending # None

(***************************************************************************)
(* Persistence after ingestion.                                            *)
(***************************************************************************)
\* the store a new process gets from the files of this one: build_services
\* makes a FaissVectorStore() and calls load() on it
RestartedStore == load(None, <<>>, index_file, meta_file)

\* C12: after every successful ingest, in any sequence of ingests, questions
\* and clears, the two files hold the in-memory index: a load() by a new
\* store object succeeds and gives the same vectors and the same metadata,
\* the chunks of the documents ingested earlier included
C12_IngestPersistsAll ==
    (op \in IngestOps /\ result = "ok") =>
        /\ RestartedStore.result = "True"
        /\ RestartedStore.index = index
        /\ RestartedStore.metadata = metadata
        /\ ntotal(RestartedStore.index) = Len(metadata)

\* a successful ingest into an index that already held the chunks of an
\* earlier document, all of them in what a new process loads
C12_Witness ==
    /\ op \in IngestOps
    /\ result = "ok"
    /\ stages[Len(stages)] = "save"
    /\ out[1].chunks_indexed >= 1
    /\ Len(metadata) > out[1].chunks_indexed
    /\ RestartedStore.metadata = metadata
    /\ RestartedStore.index = index

(***************************************************************************)
(* load() when a file is missing.                                          *)
(***************************************************************************)
\* one of the two files of the index is not there
ArtifactMissing == index_file = None \/ meta_file = None

\* C13 as stated: a load() that finds a file missing returns False and
\* leaves the store unset, with no index and no metadata, whatever the store
\* held before and whichever file is missing
C13_MissingArtifactUnsets ==
    (op = "load" /\ ArtifactMissing) =>
        /\ result = "False"
        /\ index = None
        /\ metadata = <<>>

\* C13 amended: a load() that finds a file missing returns False and leaves
\* the store as it was before the call, whichever file is missing: unset if
\* it held nothing, and with the index and the metadata it held otherwise;
\* the files are left as they were
C13_MissingArtifactKeepsState ==
    [][(op' = "load" /\ ArtifactMissing) =>
           /\ result' = "False"
           /\ index' = index
           /\ metadata' = metadata
           /\ index_file' = index_file
           /\ meta_file' = meta_file]_vars

\* load() returned False on a store that holds entries, the metadata file
\* missing and the index file there
C13_Witness ==
    /\ op = "load"
    /\ result = "False"
    /\ index_file # None
    /\ meta_file = None
    /\ ntotal(index) >= 1
    /\ Len(metadata) = ntotal(index)

\* the same with the index file missing and the metadata file there
C13_WitnessIndexMissing ==
    /\ op = "load"
    /\ result = "False"
    /\ index_file = None
    /\ meta_file # None
    /\ ntotal(index) >= 1

\* the same on a store that holds nothing: it stays unset
C13_WitnessUnset ==
    /\ op = "load"
    /\ result = "False"
    /\ ArtifactMissing
    /\ index = None
    /\ metadata = <<>>

(***************************************************************************)
(* Order and identifiers of the chunks.                                    *)
(***************************************************************************)
\* the start_char of the chunks, in the order of the list
Starts(chunks) == [i \in 1 .. Len(chunks) |-> chunks[i].start_char]

\* the chunk_id of the chunks, in the order of the list
Ids(chunks) == [i \in 1 .. Len(chunks) |-> chunks[i].chunk_id]

\* C14: chunk_document returns the chunks in ascending order of start_char;
\* the i-th of them, counting from zero, has chunk_id "{source_file}-{i}",
\* whatever windows were skipped as empty, so the ids are contiguous and
\* distinct; only the last chunk has a window that ends at len(text); and
\* 2,000 letters under chunk_size 700 and overlap 120 give four chunks that
\* start at 0, 580, 1160 and 1740, the last one clipped to 2,000, with ids
\* doc-0 to doc-3
C14_OrderedContiguousIds ==
    op = "chunk_document" =>
        /\ \A i \in 1 .. Len(out) - 1 : out[i].start_char < out[i + 1].start_char
        /\ \A i \in 1 .. Len(out) :
               out[i].chunk_id = args.source_file \o "-" \o ToString(i - 1)
        /\ \A i, j \in 1 .. Len(out) :
               i # j => out[i].chunk_id # out[j].chunk_id
        /\ \A i \in 1 .. Len(out) - 1 : out[i].end_char < Len(args.text)
        /\ ( /\ args.text = LongText
             /\ Get(chunker).chunk_size = 700
             /\ Get(chunker).overlap = 120 ) =>
               /\ Starts(out) = <<0, 580, 1160, 1740>>
               /\ Ids(out) = <<"doc-0", "doc-1", "doc-2", "doc-3">>
               /\ out[4].end_char = 2000

\* two chunks with a window skipped as empty between them: the ids are
\* still doc-0 and doc-1, and the second chunk ends the text
C14_Witness ==
    /\ op = "chunk_document"
    /\ Len(out) = 2
    /\ out[2].start_char - out[1].start_char =
           2 * (Get(chunker).chunk_size - Get(chunker).overlap)
    /\ out[1].end_char <= out[2].start_char - 1
    /\ Ids(out) = <<"doc-0", "doc-1">>
    /\ out[2].end_char = Len(args.text)

\* the 2,000 letters chunked under the settings
C14_WitnessSettings ==
    /\ op = "chunk_document"
    /\ Len(args.text) = 2000
    /\ Get(chunker) = [chunk_size |-> chunk_size, overlap |-> chunk_overlap]
    /\ Starts(out) = <<0, 580, 1160, 1740>>

====
